---- MODULE Spec2Model ----
(***************************************************************************)
(* A model of raytracing.MatrixGroup (src/raytracing/matrixgroup.py): an   *)
(* ordered list of optical elements with an aggregate ABCD matrix, a       *)
(* one-entry ray trace cache and replay-based structural editing.          *)
(*                                                                         *)
(* Python objects are kept in a heap and named by their index in it, so    *)
(* that an element the group mutates in place (the index fix of append,    *)
(* flipOrientation) is seen through every reference to it.                 *)
(* Matrix entries and lengths are exact rationals.                         *)
(***************************************************************************)
EXTENDS Integers, Sequences, FiniteSets, TLC

\* ---------------------------------------------------------------- bounds
MaxObj == 2
MaxLen == 3
NRays == 2
MaxTraces == 2
MaxChunk == 2
MaxD == 3
MaxF == 2
MaxFocal == 5

\* ------------------------------------------------------------- rationals
\* A number is [n, d] with d > 0 in lowest terms; d = 0 marks the two
\* sentinels of the code: float('+Inf') and None.
Abs(x) == IF x < 0 THEN -x ELSE x

RECURSIVE GCD(_, _)
GCD(a, b) == IF b = 0 THEN a ELSE GCD(b, a % b)

Rat(n, d) ==
    IF d = 1 THEN [n |-> n, d |-> 1]
    ELSE LET s == IF d < 0 THEN -1 ELSE 1
             g == GCD(Abs(n), Abs(d))
         IN  [n |-> (s * n) \div g, d |-> (s * d) \div g]

Int2R(k) == [n |-> k, d |-> 1]
Inf == [n |-> 1, d |-> 0]
None == [n |-> 0, d |-> 0]
Zero == Int2R(0)
One == Int2R(1)

IsInf(x) == x = Inf
RAdd(x, y) ==
    IF x.d = 1 /\ y.d = 1 THEN [n |-> x.n + y.n, d |-> 1]
    ELSE IF IsInf(x) \/ IsInf(y) THEN Inf
    ELSE Rat(x.n * y.d + y.n * x.d, x.d * y.d)
RSub(x, y) ==
    IF x.d = 1 /\ y.d = 1 THEN [n |-> x.n - y.n, d |-> 1]
    ELSE IF IsInf(x) THEN Inf
    ELSE Rat(x.n * y.d - y.n * x.d, x.d * y.d)
RMul(x, y) ==
    IF x.d = 1 /\ y.d = 1 THEN [n |-> x.n * y.n, d |-> 1]
    ELSE Rat(x.n * y.n, x.d * y.d)
RLe(x, y) == IF IsInf(y) THEN TRUE ELSE IF IsInf(x) THEN FALSE ELSE x.n * y.d <= y.n * x.d
RLt(x, y) == RLe(x, y) /\ x # y
RAbs(x) == [n |-> Abs(x.n), d |-> x.d]
RNeg(x) == [n |-> -x.n, d |-> x.d]
RDiv(x, y) == Rat(x.n * y.d, x.d * y.n)
Half(x) == IF IsInf(x) THEN Inf ELSE Rat(x.n, 2 * x.d)

\* ------------------------------------------------ elements (Matrix objects)
\* Matrix(A, B, C, D, physicalLength, frontVertex, backVertex,
\* apertureDiameter) with its refractive indices.
Matrix(kind, A, B, C, D, L, fi, bi, fv, bv, ap) ==
    [kind |-> kind, A |-> A, B |-> B, C |-> C, D |-> D, L |-> L,
     frontIndex |-> fi, backIndex |-> bi, frontVertex |-> fv, backVertex |-> bv,
     apertureDiameter |-> ap]

\* Matrix(A=1, B=0, C=0, D=1)
Identity == Matrix("Matrix", One, Zero, Zero, One, Zero, 1, 1, None, None, Inf)

\* Space(d, n): free space of length d in a medium of index n
Space(d, n) == Matrix("Space", One, d, Zero, One, d, n, n, None, None, Inf)

\* Lens(f, diameter): thin lens
Lens(f, diameter) ==
    Matrix("Lens", One, Zero, Rat(-f.d, f.n), One, Zero, 1, 1, Zero, Zero, diameter)

\* DielectricInterface(n1, n2): flat interface between two media
DielectricInterface(n1, n2) ==
    Matrix("DielectricInterface", One, Zero, Zero, Rat(n1, n2), Zero, n1, n2, Zero, Zero, Inf)

\* The product left * right: right is met first.
MatMul(left, right) ==
    Matrix("Matrix",
           RAdd(RMul(left.A, right.A), RMul(left.B, right.C)),
           RAdd(RMul(left.A, right.B), RMul(left.B, right.D)),
           RAdd(RMul(left.C, right.A), RMul(left.D, right.C)),
           RAdd(RMul(left.C, right.B), RMul(left.D, right.D)),
           RAdd(left.L, right.L),
           right.frontIndex, left.backIndex,
           right.frontVertex, left.backVertex, Inf)

\* element.transferMatrix(upTo) of a single element
ElementTransferMatrix(e, upTo) ==
    IF RLe(e.L, upTo) THEN e
    ELSE IF e.kind = "Space" THEN Space(upTo, e.frontIndex)
    ELSE e

\* element.flipOrientation() of a single element
ElementFlipOrientation(e) ==
    [e EXCEPT !.A = e.D, !.D = e.A,
              !.frontVertex = e.backVertex, !.backVertex = e.frontVertex,
              !.frontIndex = e.backIndex, !.backIndex = e.frontIndex]

\* matrix.forwardConjugate(): the distance behind the element at which the B
\* entry of Space(distance) * matrix is zero, and the magnification there (the
\* A entry of that product); no finite conjugate when D is zero
ElementForwardConjugate(m) ==
    IF m.D = Zero THEN [distance |-> Inf, magnification |-> None]
    ELSE LET distance == RDiv(RNeg(m.B), m.D)
         IN  [distance |-> distance,
              magnification |-> MatMul(Space(distance, 1), m).A]

\* A Ray: height, angle, axial position and the blocked flag.
Ray(y, theta) == [y |-> y, theta |-> theta, z |-> Zero, isBlocked |-> FALSE]

\* element.trace(ray) of a single element: the list holding the ray after the
\* element, blocked when its height exceeds the aperture radius there.
ElementTrace(e, ray) ==
    LET y == RAdd(RMul(e.A, ray.y), RMul(e.B, ray.theta))
        theta == RAdd(RMul(e.C, ray.y), RMul(e.D, ray.theta))
    IN  << [y |-> y, theta |-> theta, z |-> RAdd(ray.z, e.L),
            isBlocked |-> ray.isBlocked \/ RLt(Half(e.apertureDiameter), RAbs(y))] >>

\* element.hasFiniteApertureDiameter() and element.largestDiameter of a single
\* element
ElementHasFiniteApertureDiameter(e) == ~IsInf(e.apertureDiameter)
ElementLargestDiameter(e) == e.apertureDiameter

\* element.displayHalfHeight() of a single element: half its aperture
\* diameter when that is finite, 4 when it is not
ElementDisplayHalfHeight(e) ==
    IF IsInf(e.apertureDiameter) THEN Int2R(4) ELSE Half(e.apertureDiameter)

\* ray != self._lastRayToBeTraced: two rays are the same when they are the
\* same object (0 stands for None)
RayNotEqual(ray, lastRay) == ray # lastRay

\* The rays the caller holds: ray r has height (r + 1) \div 2, so that rays
\* 1 and 2 are two objects with equal height and angle.
RayIds == 1..NRays
RayObject(r) == Ray(Int2R((r + 1) \div 2), Zero)

\* The elements the caller constructs.
Templates ==
    { Space(Int2R(1), 1), Space(Int2R(2), 2),
      Lens(Int2R(2), Inf),
      DielectricInterface(1, 2), DielectricInterface(2, 1) }

\* ------------------------------------------------------------------ state
VARIABLES
    heap,               \* the element objects constructed so far, by identity
    group,              \* the MatrixGroup: elements (identities) and aggregate
    lastRayToBeTraced,  \* _lastRayToBeTraced: a ray identity, 0 for None
    lastRayTrace,       \* _lastRayTrace: the cached list object
    traceCount,         \* trace lists built so far (names the next list object)
    last,               \* the last call and its outcome
    sliceGroup,         \* the MatrixGroup the last group[a:b:c] returned
    iteration,          \* self.iteration of the group
    loops               \* the caller's for-loops over the group

vars == <<heap, group, lastRayToBeTraced, lastRayTrace, traceCount, last,
          sliceGroup, iteration, loops>>

Ids == 1..Len(heap)

\* The copy of lines 86-92 with self.D = transferMatrix.A.
AggregateCopiesAIntoD(m) ==
    [A |-> m.A, B |-> m.B, C |-> m.C, D |-> m.A, L |-> m.L,
     frontVertex |-> m.frontVertex, backVertex |-> m.backVertex]

\* The fields append copies from transferMatrix() (lines 86-92).
Aggregate(m) ==
    [A |-> m.A, B |-> m.B, C |-> m.C, D |-> m.D, L |-> m.L,
     frontVertex |-> m.frontVertex, backVertex |-> m.backVertex]

NewGroup == [elements |-> <<>>, agg |-> Aggregate(Identity)]

\* The loop of transferMatrix with "element.L < distance" for its test.
RECURSIVE TransferLoopStrict(_, _, _, _, _)
TransferLoopStrict(h, els, i, tm, distance) ==
    IF i > Len(els) THEN tm
    ELSE LET element == h[els[i]]
         IN  IF RLt(element.L, distance)
             THEN TransferLoopStrict(h, els, i + 1, MatMul(element, tm),
                                     RSub(distance, element.L))
             ELSE MatMul(ElementTransferMatrix(element, distance), tm)

\* The loop of transferMatrix without the break after the partial element.
RECURSIVE TransferLoopKeepsGoing(_, _, _, _, _)
TransferLoopKeepsGoing(h, els, i, tm, distance) ==
    IF i > Len(els) THEN tm
    ELSE LET element == h[els[i]]
         IN  IF RLe(element.L, distance)
             THEN TransferLoopKeepsGoing(h, els, i + 1, MatMul(element, tm),
                                         RSub(distance, element.L))
             ELSE TransferLoopKeepsGoing(h, els, i + 1,
                                         MatMul(ElementTransferMatrix(element, distance), tm),
                                         Zero)

\* The loop of transferMatrix with the product taken as
\* transferMatrix * element.
RECURSIVE TransferLoopRightMultiply(_, _, _, _, _)
TransferLoopRightMultiply(h, els, i, tm, distance) ==
    IF i > Len(els) THEN tm
    ELSE LET element == h[els[i]]
         IN  IF RLe(element.L, distance)
             THEN TransferLoopRightMultiply(h, els, i + 1, MatMul(tm, element),
                                            RSub(distance, element.L))
             ELSE MatMul(tm, ElementTransferMatrix(element, distance))

\* MatrixGroup.transferMatrix(upTo): the loop from element i on, with the
\* running product tm and the remaining distance.
RECURSIVE TransferLoop(_, _, _, _, _)
TransferLoop(h, els, i, tm, distance) ==
    IF i > Len(els) THEN tm
    ELSE LET element == h[els[i]]
         IN  IF RLe(element.L, distance)
             THEN TransferLoop(h, els, i + 1, MatMul(element, tm), RSub(distance, element.L))
             ELSE MatMul(ElementTransferMatrix(element, distance), tm)

transferMatrix(h, els, upTo) == TransferLoop(h, els, 1, Identity, upTo)

\* The outcome of a call: the heap and group it leaves, the exception it
\* raised ("" for none) and the number of warnings it emitted.
Outcome(h, g, raised, warned) == [heap |-> h, group |-> g, raised |-> raised, warned |-> warned]

\* isinstance(matrix, Matrix): the heap holds the Matrix objects, and 0 stands
\* for None, which is no Matrix
IsMatrix(h, matrix) == matrix \in 1..Len(h)

\* append with the index fix of a Space writing frontIndex alone.
appendElementFixesFrontIndexOnly(h, els, matrix) ==
    LET n == Len(els)
        lastElement == h[els[n]]
        mismatch == n # 0 /\ lastElement.backIndex # h[matrix].frontIndex
    IN  IF ~IsMatrix(h, matrix)
        THEN [heap |-> h, elements |-> els, raised |-> "TypeError", warned |-> 0]
        ELSE IF mismatch /\ h[matrix].kind # "Space"
        THEN [heap |-> h, elements |-> els, raised |-> "ValueError", warned |-> 0]
        ELSE [heap |-> IF mismatch
                       THEN [h EXCEPT ![matrix].frontIndex = lastElement.backIndex]
                       ELSE h,
              elements |-> Append(els, matrix),
              raised |-> "",
              warned |-> IF mismatch THEN 1 ELSE 0]

\* MatrixGroup.append(matrix) up to self.elements.append(matrix) (lines
\* 68-84): the type and index checks, the index fix of a Space, the new list.
\* matrix is an object of the heap or None.
appendElement(h, els, matrix) ==
    LET n == Len(els)
        lastElement == h[els[n]]
        mismatch == n # 0 /\ lastElement.backIndex # h[matrix].frontIndex
    IN  IF ~IsMatrix(h, matrix)
        THEN [heap |-> h, elements |-> els, raised |-> "TypeError", warned |-> 0]
        ELSE IF mismatch /\ h[matrix].kind # "Space"
        THEN [heap |-> h, elements |-> els, raised |-> "ValueError", warned |-> 0]
        ELSE [heap |-> IF mismatch
                       THEN [h EXCEPT ![matrix].frontIndex = lastElement.backIndex,
                                      ![matrix].backIndex = lastElement.backIndex]
                       ELSE h,
              elements |-> Append(els, matrix),
              raised |-> "",
              warned |-> IF mismatch THEN 1 ELSE 0]

\* lines 85-92: the aggregate is overwritten with transferMatrix()
recompute(h, els) == [elements |-> els, agg |-> Aggregate(transferMatrix(h, els, Inf))]

\* append with the element added to the list before the indices are checked.
appendKeepsElementOnError(h, g, matrix) ==
    LET r == appendElement(h, g.elements, matrix)
    IN  IF r.raised = "TypeError" THEN Outcome(h, g, r.raised, 0)
        ELSE IF r.raised # ""
        THEN Outcome(h, recompute(h, Append(g.elements, matrix)), r.raised, 0)
        ELSE Outcome(r.heap, recompute(r.heap, r.elements), "", r.warned)

\* MatrixGroup.append(matrix)
append(h, g, matrix) ==
    LET r == appendElement(h, g.elements, matrix)
    IN  IF r.raised # "" THEN Outcome(h, g, r.raised, 0)
        ELSE Outcome(r.heap, recompute(r.heap, r.elements), "", r.warned)

\* for element in ids: self.append(element), stopping at the first exception.
\* Every append overwrites the whole aggregate and the heap is not written
\* between the last append that succeeded and the end of the loop, so the
\* aggregate is computed once, for that last append.
RECURSIVE appendLoop(_, _, _, _)
appendLoop(h, els, ids, warned) ==
    IF ids = <<>> THEN [heap |-> h, elements |-> els, raised |-> "", warned |-> warned]
    ELSE LET r == appendElement(h, els, Head(ids))
         IN  IF r.raised # ""
             THEN [heap |-> h, elements |-> els, raised |-> r.raised, warned |-> warned]
             ELSE appendLoop(r.heap, r.elements, Tail(ids), warned + r.warned)

appendAll(h, g, ids, warned) ==
    LET r == appendLoop(h, g.elements, ids, warned)
    IN  Outcome(r.heap,
                IF r.elements = g.elements THEN g ELSE recompute(r.heap, r.elements),
                r.raised, r.warned)

\* self.elements = [] followed by the replay of `arrangement` through append;
\* the aggregate is touched by append alone.
replay(h, g, arrangement, warned) ==
    appendAll(h, [g EXCEPT !.elements = <<>>], arrangement, warned)

\* MatrixGroup(elements): the constructor, appending each element in turn
MatrixGroup(h, ids) == appendAll(h, NewGroup, ids, 0)

\* Python's index of a structural edit, negative ones counted from the end
FromEnd(index, maxIndex) == IF index < 0 THEN index + maxIndex ELSE index

\* A MatrixGroup as an object of the heap, to be an element of another group:
\* the Matrix fields that append keeps up to date (lines 86-92), the refractive
\* indices and aperture that Matrix.__init__(1, 0, 0, 1) gave it (line 21), and
\* its element list
GroupObject(g) ==
    [kind |-> "MatrixGroup",
     A |-> g.agg.A, B |-> g.agg.B, C |-> g.agg.C, D |-> g.agg.D, L |-> g.agg.L,
     frontIndex |-> Identity.frontIndex, backIndex |-> Identity.backIndex,
     frontVertex |-> g.agg.frontVertex, backVertex |-> g.agg.backVertex,
     apertureDiameter |-> Identity.apertureDiameter,
     elements |-> g.elements]

\* transferMatrices that takes a nested group for one matrix.
transferMatricesShallow(h, els) == els

\* MatrixGroup.transferMatrices(): the list, by identity, of what each
\* element's transferMatrices() returns, [self] for a Matrix and this very
\* list for a group
RECURSIVE transferMatrices(_, _)
transferMatrices(h, els) ==
    IF els = <<>> THEN <<>>
    ELSE (IF h[Head(els)].kind = "MatrixGroup"
          THEN transferMatrices(h, h[Head(els)].elements)
          ELSE <<Head(els)>>)
         \o transferMatrices(h, Tail(els))

\* The loop of intermediateConjugates without the test planePosition != 0.
RECURSIVE conjugatesLoopKeepsOrigin(_, _, _, _)
conjugatesLoopKeepsOrigin(h, matrices, tm, planes) ==
    IF matrices = <<>> THEN planes
    ELSE LET product == MatMul(h[Head(matrices)], tm)
             conjugate == ElementForwardConjugate(product)
             planePosition == RAdd(product.L, conjugate.distance)
         IN  conjugatesLoopKeepsOrigin(h, Tail(matrices), product,
                 IF conjugate.distance # None /\ conjugate.magnification # None
                 THEN Append(planes, <<planePosition, conjugate.magnification>>)
                 ELSE planes)

\* The loop of intermediateConjugates (lines 217-224) over the matrices left,
\* with the running product tm and the planes found so far
RECURSIVE conjugatesLoop(_, _, _, _)
conjugatesLoop(h, matrices, tm, planes) ==
    IF matrices = <<>> THEN planes
    ELSE LET product == MatMul(h[Head(matrices)], tm)
             conjugate == ElementForwardConjugate(product)
             planePosition == RAdd(product.L, conjugate.distance)
         IN  conjugatesLoop(h, Tail(matrices), product,
                 IF /\ conjugate.distance # None
                    /\ planePosition # Zero
                    /\ conjugate.magnification # None
                 THEN Append(planes, <<planePosition, conjugate.magnification>>)
                 ELSE planes)

\* MatrixGroup.intermediateConjugates()
intermediateConjugates(h, els) ==
    conjugatesLoop(h, transferMatrices(h, els), Identity, <<>>)

\* A slice(start, stop, step): each part is <<k>> for the integer k and <<>>
\* for None.
Slice(start, stop, step) == [start |-> start, stop |-> stop, step |-> step]

\* slice.indices(n) as list slicing applies it: the step (None is 1), and the
\* start and stop brought into range for the direction of the step
SliceStep(item) == IF item.step = <<>> THEN 1 ELSE item.step[1]

SliceBound(part, n, low, high, default) ==
    IF part = <<>> THEN default
    ELSE LET k == IF part[1] < 0 THEN part[1] + n ELSE part[1]
         IN  IF k < low THEN low ELSE IF k > high THEN high ELSE k

SliceStart(item, n) ==
    IF SliceStep(item) > 0 THEN SliceBound(item.start, n, 0, n, 0)
    ELSE SliceBound(item.start, n, -1, n - 1, n - 1)

SliceStop(item, n) ==
    IF SliceStep(item) > 0 THEN SliceBound(item.stop, n, 0, n, n)
    ELSE SliceBound(item.stop, n, -1, n - 1, -1)

\* self.elements[item] for a slice: the elements at start, start + step, ..
\* before stop
RECURSIVE ListSliceFrom(_, _, _, _)
ListSliceFrom(els, i, stop, step) ==
    IF (step > 0 /\ i >= stop) \/ (step < 0 /\ i <= stop) THEN <<>>
    ELSE <<els[i + 1]>> \o ListSliceFrom(els, i + step, stop, step)

ListSlice(els, item) ==
    ListSliceFrom(els, SliceStart(item, Len(els)), SliceStop(item, Len(els)), SliceStep(item))

\* MatrixGroup.__getitem__(item) with a slice: MatrixGroup(self.elements[item]),
\* the new group in the outcome
getitemSlice(h, g, item) ==
    IF SliceStep(item) = 0 THEN Outcome(h, NewGroup, "ValueError", 0)
    ELSE MatrixGroup(h, ListSlice(g.elements, item))

\* MatrixGroup.__getitem__(item) with an integer: self.elements[item], 0 when
\* the list raises IndexError
getitem(g, item) ==
    LET n == Len(g.elements)
        idx == FromEnd(item, n)
    IN  IF idx < 0 \/ idx >= n THEN 0 ELSE g.elements[idx + 1]

\* MatrixGroup.removeElement(index, pad); the elements are numbered from 0
removeElement(h, g, index, pad) ==
    LET maxIndex == Len(g.elements)
        idx == FromEnd(index, maxIndex)
        tempElements == g.elements
        length == h[tempElements[idx + 1]].L
        before == SubSeq(tempElements, 1, idx)
        after == SubSeq(tempElements, idx + 2, maxIndex)
    IN  IF idx >= maxIndex \/ idx < 0 THEN Outcome(h, g, "IndexError", 0)
        ELSE IF RLt(Zero, length) /\ pad
        THEN LET r1 == replay(h, g, before, 0)
                 h2 == Append(r1.heap, Space(length, 1))
                 r2 == append(h2, r1.group, Len(h2))
             IN  IF r1.raised # "" THEN r1
                 ELSE appendAll(r2.heap, r2.group, after, r1.warned + r2.warned)
        ELSE replay(h, g, before \o after, 0)

\* insertElement with the list cleared before the index is checked.
insertElementClearsBeforeCheck(h, g, index, element) ==
    LET new == MatrixGroup(h, element)
        maxIndex == Len(g.elements)
        idx == FromEnd(index, maxIndex)
        tempElements == g.elements
    IN  IF new.raised # "" THEN Outcome(new.heap, g, new.raised, new.warned)
        ELSE IF idx > maxIndex \/ idx < 0
        THEN Outcome(new.heap, [g EXCEPT !.elements = <<>>], "IndexError", new.warned)
        ELSE IF idx = maxIndex THEN appendAll(new.heap, g, new.group.elements, new.warned)
        ELSE replay(new.heap, g,
                    SubSeq(tempElements, 1, idx) \o new.group.elements
                        \o SubSeq(tempElements, idx + 1, maxIndex),
                    new.warned)

\* MatrixGroup.insertElement(index, element); element is given as the list of
\* the elements it holds (a single Matrix is wrapped in a list by the code)
insertElement(h, g, index, element) ==
    LET new == MatrixGroup(h, element)
        maxIndex == Len(g.elements)
        idx == FromEnd(index, maxIndex)
        tempElements == g.elements
    IN  IF new.raised # "" THEN Outcome(new.heap, g, new.raised, new.warned)
        ELSE IF idx > maxIndex \/ idx < 0 THEN Outcome(new.heap, g, "IndexError", new.warned)
        ELSE IF idx = maxIndex THEN appendAll(new.heap, g, new.group.elements, new.warned)
        ELSE replay(new.heap, g,
                    SubSeq(tempElements, 1, idx) \o new.group.elements
                        \o SubSeq(tempElements, idx + 1, maxIndex),
                    new.warned)

\* The outcome of replaceSingle and replaceChunk: that of a call, and whether
\* the "Physical length mismatch" warning was among its warnings.
WithLengthWarning(r, lengthWarning) ==
    [heap |-> r.heap, group |-> r.group, raised |-> r.raised, warned |-> r.warned,
     lengthWarned |-> lengthWarning]

\* replaceSingle that, after the length warning, puts the list back as it was.
replaceSingleBlocksOnMismatch(h, g, index, newElement) ==
    LET new == MatrixGroup(h, newElement)
        maxIndex == Len(g.elements)
        idx == FromEnd(index, maxIndex)
        tempElements == g.elements
        before == replay(new.heap, g, SubSeq(tempElements, 1, idx), new.warned)
        toReplace == before.heap[tempElements[idx + 1]]
        lengthWarning == IF toReplace.L # new.group.agg.L THEN 1 ELSE 0
    IN  IF new.raised # "" THEN WithLengthWarning(Outcome(new.heap, g, new.raised, new.warned), 0)
        ELSE IF idx >= maxIndex \/ idx < 0
        THEN WithLengthWarning(Outcome(new.heap, g, "IndexError", new.warned), 0)
        ELSE IF before.raised # "" THEN WithLengthWarning(before, 0)
        ELSE IF lengthWarning = 1
        THEN WithLengthWarning(Outcome(before.heap, g, "", before.warned + 1), 1)
        ELSE WithLengthWarning(
                 appendAll(before.heap, before.group,
                           new.group.elements \o SubSeq(tempElements, idx + 2, maxIndex),
                           before.warned + lengthWarning),
                 lengthWarning)

\* MatrixGroup.replaceSingle(index, newElement)
replaceSingle(h, g, index, newElement) ==
    LET new == MatrixGroup(h, newElement)
        maxIndex == Len(g.elements)
        idx == FromEnd(index, maxIndex)
        tempElements == g.elements
        before == replay(new.heap, g, SubSeq(tempElements, 1, idx), new.warned)
        toReplace == before.heap[tempElements[idx + 1]]
        lengthWarning == IF toReplace.L # new.group.agg.L THEN 1 ELSE 0
    IN  IF new.raised # "" THEN WithLengthWarning(Outcome(new.heap, g, new.raised, new.warned), 0)
        ELSE IF idx >= maxIndex \/ idx < 0
        THEN WithLengthWarning(Outcome(new.heap, g, "IndexError", new.warned), 0)
        ELSE IF before.raised # "" THEN WithLengthWarning(before, 0)
        ELSE WithLengthWarning(
                 appendAll(before.heap, before.group,
                           new.group.elements \o SubSeq(tempElements, idx + 2, maxIndex),
                           before.warned + lengthWarning),
                 lengthWarning)

\* replaceChunk with the element at stopIndex kept.
replaceChunkKeepsStop(h, g, startIndex, stopIndex, newChunk) ==
    LET new == MatrixGroup(h, newChunk)
        maxIndex == Len(g.elements)
        i1 == FromEnd(startIndex, maxIndex)
        i2 == FromEnd(stopIndex, maxIndex)
        start == IF i1 > i2 THEN i2 ELSE i1
        stop == IF i1 > i2 THEN i1 ELSE i2
        tempElements == g.elements
        slice == MatrixGroup(new.heap, SubSeq(tempElements, start + 1, stop + 1))
        lengthWarning == IF slice.group.agg.L # new.group.agg.L THEN 1 ELSE 0
    IN  IF new.raised # "" THEN WithLengthWarning(Outcome(new.heap, g, new.raised, new.warned), 0)
        ELSE IF i1 >= maxIndex \/ i1 < 0 \/ i2 >= maxIndex \/ i2 < 0 \/ i1 = i2
        THEN WithLengthWarning(Outcome(new.heap, g, "IndexError", new.warned), 0)
        ELSE IF slice.raised # ""
        THEN WithLengthWarning(Outcome(slice.heap, g, slice.raised, new.warned + slice.warned), 0)
        ELSE WithLengthWarning(
                 replay(slice.heap, g,
                        SubSeq(tempElements, 1, start) \o new.group.elements
                            \o SubSeq(tempElements, stop + 1, maxIndex),
                        new.warned + slice.warned + lengthWarning),
                 lengthWarning)

\* MatrixGroup.replaceChunk(startIndex, stopIndex, newChunk), both indices included
replaceChunk(h, g, startIndex, stopIndex, newChunk) ==
    LET new == MatrixGroup(h, newChunk)
        maxIndex == Len(g.elements)
        i1 == FromEnd(startIndex, maxIndex)
        i2 == FromEnd(stopIndex, maxIndex)
        start == IF i1 > i2 THEN i2 ELSE i1
        stop == IF i1 > i2 THEN i1 ELSE i2
        tempElements == g.elements
        \* self[startIndex:stopIndex + 1] is a MatrixGroup built from the slice
        slice == MatrixGroup(new.heap, SubSeq(tempElements, start + 1, stop + 1))
        lengthWarning == IF slice.group.agg.L # new.group.agg.L THEN 1 ELSE 0
    IN  IF new.raised # "" THEN WithLengthWarning(Outcome(new.heap, g, new.raised, new.warned), 0)
        ELSE IF i1 >= maxIndex \/ i1 < 0 \/ i2 >= maxIndex \/ i2 < 0 \/ i1 = i2
        THEN WithLengthWarning(Outcome(new.heap, g, "IndexError", new.warned), 0)
        ELSE IF slice.raised # ""
        THEN WithLengthWarning(Outcome(slice.heap, g, slice.raised, new.warned + slice.warned), 0)
        ELSE WithLengthWarning(
                 replay(slice.heap, g,
                        SubSeq(tempElements, 1, start) \o new.group.elements
                            \o SubSeq(tempElements, stop + 2, maxIndex),
                        new.warned + slice.warned + lengthWarning),
                 lengthWarning)

\* The outcome r of a call made after `warned` warnings were emitted.
WarnedBefore(r, warned) == Outcome(r.heap, r.group, r.raised, warned + r.warned)

\* replaceChunk(None, ..) or replaceChunk(.., None): once the group `new` of
\* the new elements is built (lines 445-448), "startIndex < 0" or
\* "stopIndex < 0" raises TypeError
replaceChunkOfNone(new, g) ==
    Outcome(new.heap, g, IF new.raised # "" THEN new.raised ELSE "TypeError", new.warned)

\* MatrixGroup.__setitem__(key, value) with a slice for its key: the warning
\* for a step, then replaceChunk(key.start, key.stop, value)
setitemSlice(h, g, key, value) ==
    IF key.start = <<>> \/ key.stop = <<>>
    THEN WarnedBefore(replaceChunkOfNone(MatrixGroup(h, value), g),
                      IF key.step # <<>> THEN 1 ELSE 0)
    ELSE WarnedBefore(replaceChunk(h, g, key.start[1], key.stop[1], value),
                      IF key.step # <<>> THEN 1 ELSE 0)

Reverse(s) == [i \in 1..Len(s) |-> s[Len(s) + 1 - i]]

\* the loop of flipOrientation: element.flipOrientation(); self.append(element)
RECURSIVE flipLoop(_, _, _, _)
flipLoop(h, g, ids, warned) ==
    IF ids = <<>> THEN Outcome(h, g, "", warned)
    ELSE LET h2 == [h EXCEPT ![Head(ids)] = ElementFlipOrientation(h[Head(ids)])]
             r == append(h2, g, Head(ids))
         IN  IF r.raised # "" THEN Outcome(r.heap, r.group, r.raised, warned)
             ELSE flipLoop(r.heap, r.group, Tail(ids), warned + r.warned)

\* MatrixGroup.flipOrientation()
flipOrientation(h, g) ==
    flipLoop(h, [g EXCEPT !.elements = <<>>], Reverse(g.elements), 0)

\* MatrixGroup.hasFiniteApertureDiameter()
hasFiniteApertureDiameter(h, els) ==
    \E i \in 1..Len(els) : ElementHasFiniteApertureDiameter(h[els[i]])

\* the loop of largestDiameter (lines 281-284) from element i on
RECURSIVE diameterLoop(_, _, _, _)
diameterLoop(h, els, i, maxDiameter) ==
    IF i > Len(els) THEN maxDiameter
    ELSE LET diameter == ElementLargestDiameter(h[els[i]])
         IN  diameterLoop(h, els, i + 1,
                          IF ~IsInf(diameter) /\ RLt(maxDiameter, diameter)
                          THEN diameter ELSE maxDiameter)

\* largestDiameter with the empty group left at maxDiameter = 0.
largestDiameterOfEmptyIsZero(h, els) ==
    IF hasFiniteApertureDiameter(h, els) THEN diameterLoop(h, els, 1, Zero)
    ELSE IF Len(els) # 0 THEN RMul(ElementDisplayHalfHeight(h[els[1]]), Int2R(2))
    ELSE Zero

\* MatrixGroup.largestDiameter
largestDiameter(h, els) ==
    IF hasFiniteApertureDiameter(h, els) THEN diameterLoop(h, els, 1, Zero)
    ELSE IF Len(els) # 0 THEN RMul(ElementDisplayHalfHeight(h[els[1]]), Int2R(2))
    ELSE Inf

\* The list object built by the k-th computation of a trace.
RayTrace(k, rays) == [id |-> k, rays |-> rays]
NoTrace == RayTrace(0, <<>>)

\* the loop of trace with every element given the input ray.
RECURSIVE traceLoopFromInputRay(_, _, _, _, _)
traceLoopFromInputRay(h, els, i, ray, rayTrace) ==
    IF i > Len(els) THEN rayTrace
    ELSE traceLoopFromInputRay(h, els, i + 1, ray, rayTrace \o ElementTrace(h[els[i]], ray))

\* the loop of trace (lines 257-261) from element i on
RECURSIVE traceLoop(_, _, _, _, _)
traceLoop(h, els, i, ray, rayTrace) ==
    IF i > Len(els) THEN rayTrace
    ELSE LET rayTraceInElement == ElementTrace(h[els[i]], ray)
         IN  traceLoop(h, els, i + 1, rayTraceInElement[Len(rayTraceInElement)],
                       rayTrace \o rayTraceInElement)

\* isinstance(inputRay, (Ray, GaussianBeam)): 0 stands for None, which is
\* neither
IsRay(inputRay) == inputRay \in RayIds

\* trace of an input that is no ray: TypeError, the cache as it was
traceTypeError(lastRay, lastTrace, count) ==
    [lastRayToBeTraced |-> lastRay, lastRayTrace |-> lastTrace,
     count |-> count, rayTrace |-> NoTrace, raised |-> "TypeError"]

\* trace that forgets the cached pair when the input is no ray.
traceForgetsCacheOnTypeError(h, g, lastRay, lastTrace, count, inputRay) ==
    IF ~IsRay(inputRay) THEN traceTypeError(0, NoTrace, count)
    ELSE IF RayNotEqual(inputRay, lastRay)
    THEN LET rayTrace ==
                 RayTrace(count + 1,
                          traceLoop(h, g.elements, 1, RayObject(inputRay), <<RayObject(inputRay)>>))
         IN  [lastRayToBeTraced |-> inputRay, lastRayTrace |-> rayTrace,
              count |-> count + 1, rayTrace |-> rayTrace, raised |-> ""]
    ELSE [lastRayToBeTraced |-> lastRay, lastRayTrace |-> lastTrace,
          count |-> count, rayTrace |-> lastTrace, raised |-> ""]

\* trace with the cache keyed by the height and angle of the ray.
traceComparesRaysByValue(h, g, lastRay, lastTrace, count, inputRay) ==
    IF ~IsRay(inputRay) THEN traceTypeError(lastRay, lastTrace, count)
    ELSE IF lastRay = 0 \/ RayObject(inputRay) # RayObject(lastRay)
    THEN LET rayTrace ==
                 RayTrace(count + 1,
                          traceLoop(h, g.elements, 1, RayObject(inputRay), <<RayObject(inputRay)>>))
         IN  [lastRayToBeTraced |-> inputRay, lastRayTrace |-> rayTrace,
              count |-> count + 1, rayTrace |-> rayTrace, raised |-> ""]
    ELSE [lastRayToBeTraced |-> lastRay, lastRayTrace |-> lastTrace,
          count |-> count, rayTrace |-> lastTrace, raised |-> ""]

\* MatrixGroup.trace(inputRay), inputRay a Ray object: the list returned and
\* the cache it leaves; count lists are built already
trace(h, g, lastRay, lastTrace, count, inputRay) ==
    IF ~IsRay(inputRay) THEN traceTypeError(lastRay, lastTrace, count)
    ELSE IF RayNotEqual(inputRay, lastRay)
    THEN LET rayTrace ==
                 RayTrace(count + 1,
                          traceLoop(h, g.elements, 1, RayObject(inputRay), <<RayObject(inputRay)>>))
         IN  [lastRayToBeTraced |-> inputRay, lastRayTrace |-> rayTrace,
              count |-> count + 1, rayTrace |-> rayTrace, raised |-> ""]
    ELSE [lastRayToBeTraced |-> lastRay, lastRayTrace |-> lastTrace,
          count |-> count, rayTrace |-> lastTrace, raised |-> ""]

NoCall ==
    [op |-> "init", raised |-> "", warned |-> 0, matrix |-> 0,
     ray |-> 0, prevRay |-> 0, rayTrace |-> NoTrace, upTo |-> Zero, result |-> Identity,
     diameter |-> Zero, conjugate |-> [distance |-> None, magnification |-> None],
     start |-> 0, stop |-> 0, chunk |-> <<>>, lengthWarned |-> 0,
     key |-> [start |-> <<>>, stop |-> <<>>, step |-> <<>>],
     matrices |-> <<>>, planes |-> <<>>]

\* The number of for-loops the caller runs over the group.
MaxLoops == 2

\* A for-loop of the caller: not started ("idle"), between two calls of
\* __next__ ("running") or ended by StopIteration ("done"), and the elements
\* it was given so far.
NoLoop == [state |-> "idle", yielded |-> <<>>]

\* No slice was taken and no loop was started.
NothingElse ==
    /\ sliceGroup = NewGroup
    /\ iteration = 0
    /\ loops = [k \in 1..MaxLoops |-> NoLoop]

Init ==
    /\ heap = <<>>
    /\ group = NewGroup
    /\ lastRayToBeTraced = 0
    /\ lastRayTrace = NoTrace
    /\ traceCount = 0
    /\ NothingElse
    /\ last = NoCall

\* The caller constructs an element.
Construct ==
    /\ Len(heap) < MaxObj
    /\ \E t \in Templates : heap' = Append(heap, t)
    /\ last' = [NoCall EXCEPT !.op = "construct"]
    /\ UNCHANGED <<group, lastRayToBeTraced, lastRayTrace, traceCount, sliceGroup, iteration, loops>>

Apply(r) ==
    /\ heap' = r.heap
    /\ group' = r.group

DoAppend ==
    /\ Len(group.elements) < MaxLen
    /\ \E matrix \in Ids \cup {0} :
          LET r == append(heap, group, matrix)
          IN  /\ Apply(r)
              /\ last' = [NoCall EXCEPT !.op = "append", !.raised = r.raised,
                                        !.warned = r.warned, !.matrix = matrix]
    /\ UNCHANGED <<lastRayToBeTraced, lastRayTrace, traceCount, sliceGroup, iteration, loops>>

\* The arguments the caller passes: an index at most one out of range on
\* either side, a list of at most MaxChunk constructed elements.
Indices == -(Len(group.elements) + 1) .. (Len(group.elements) + 1)
Chunks == UNION { [1..k -> Ids] : k \in 0..MaxChunk }

Called(op, r) ==
    /\ Apply(r)
    /\ last' = [NoCall EXCEPT !.op = op, !.raised = r.raised, !.warned = r.warned]
    /\ UNCHANGED <<lastRayToBeTraced, lastRayTrace, traceCount, sliceGroup, iteration, loops>>

\* removeElement allocates the padding Space
Pads(index, pad) ==
    LET idx == FromEnd(index, Len(group.elements))
    IN  /\ pad
        /\ idx >= 0 /\ idx < Len(group.elements)
        /\ RLt(Zero, heap[group.elements[idx + 1]].L)

\* removeElement, while the heap holds fewer than cap objects
RemoveElementUnder(cap) ==
    \E index \in Indices, pad \in BOOLEAN :
        /\ Pads(index, pad) => Len(heap) < cap
        /\ Called("removeElement", removeElement(heap, group, index, pad))

DoRemoveElement == RemoveElementUnder(MaxObj + 1)

DoInsertElement ==
    \E index \in Indices, element \in Chunks :
        /\ Len(group.elements) + Len(element) <= MaxLen
        /\ Called("insertElement", insertElement(heap, group, index, element))

\* a call of replaceSingle or replaceChunk and its outcome r
CalledReplace(op, r) ==
    /\ Apply(r)
    /\ last' = [NoCall EXCEPT !.op = op, !.raised = r.raised, !.warned = r.warned,
                              !.lengthWarned = r.lengthWarned]
    /\ UNCHANGED <<lastRayToBeTraced, lastRayTrace, traceCount, sliceGroup, iteration, loops>>

DoReplaceSingle ==
    \E index \in Indices, newElement \in Chunks :
        /\ Len(group.elements) + Len(newElement) <= MaxLen + 1
        /\ CalledReplace("replaceSingle", replaceSingle(heap, group, index, newElement))

DoReplaceChunk ==
    \E startIndex \in Indices, stopIndex \in Indices, newChunk \in Chunks :
        /\ Len(group.elements) + Len(newChunk) <= MaxLen + 2
        /\ CalledReplace("replaceChunk",
                         replaceChunk(heap, group, startIndex, stopIndex, newChunk))

\* flipOrientation that also empties the trace cache.
DoFlipOrientationClearsCache ==
    LET r == flipOrientation(heap, group)
    IN  /\ Apply(r)
        /\ last' = [NoCall EXCEPT !.op = "flipOrientation", !.raised = r.raised,
                                  !.warned = r.warned]
        /\ lastRayToBeTraced' = 0
        /\ lastRayTrace' = NoTrace
        /\ UNCHANGED <<traceCount, sliceGroup, iteration, loops>>

DoFlipOrientation ==
    /\ Called("flipOrientation", flipOrientation(heap, group))

\* replaceChunk called with the arguments the caller has prepared, which are
\* kept in `last`
DoReplaceChunkGiven ==
    /\ last.op = "init"
    /\ LET r == replaceChunk(heap, group, last.start, last.stop, last.chunk)
       IN  /\ Apply(r)
           /\ last' = [last EXCEPT !.op = "replaceChunk", !.raised = r.raised,
                                   !.warned = r.warned, !.lengthWarned = r.lengthWarned]
    /\ UNCHANGED <<lastRayToBeTraced, lastRayTrace, traceCount, sliceGroup, iteration, loops>>

\* The slices the caller writes
SliceParts == {<<>>} \cup { <<k>> : k \in Indices }
SliceSteps == {<<>>, <<1>>, <<2>>, <<-1>>, <<0>>}

\* sliced = group[start:stop:step], the one slice the caller takes
DoGetSlice ==
    \E start \in SliceParts, stop \in SliceParts, step \in SliceSteps :
        LET r == getitemSlice(heap, group, Slice(start, stop, step))
        IN  /\ last.op \in {"init", "getitem"}
            /\ sliceGroup = NewGroup
            /\ heap' = r.heap
            /\ sliceGroup' = IF r.raised = "" THEN r.group ELSE sliceGroup
            /\ last' = [NoCall EXCEPT !.op = "getitem[slice]", !.raised = r.raised,
                                      !.warned = r.warned]
            /\ UNCHANGED <<group, lastRayToBeTraced, lastRayTrace, traceCount,
                           iteration, loops>>

\* element = group[item]
DoGetItem ==
    \E item \in Indices :
        /\ last' = [NoCall EXCEPT !.op = "getitem", !.start = item,
                                  !.raised = IF getitem(group, item) = 0
                                             THEN "IndexError" ELSE "",
                                  !.matrix = getitem(group, item)]
        /\ UNCHANGED <<heap, group, lastRayToBeTraced, lastRayTrace, traceCount,
                       sliceGroup, iteration, loops>>

\* sliced.append(matrix), once a slice was taken
DoSliceAppend ==
    \E matrix \in Ids :
        /\ last.op \in {"getitem[slice]", "slice.append"}
        /\ last.op = "getitem[slice]" => last.raised = ""
        /\ Len(sliceGroup.elements) < MaxLen
        /\ LET r == append(heap, sliceGroup, matrix)
           IN  /\ heap' = r.heap
               /\ sliceGroup' = r.group
               /\ last' = [NoCall EXCEPT !.op = "slice.append", !.raised = r.raised,
                                         !.warned = r.warned, !.matrix = matrix]
        /\ UNCHANGED <<group, lastRayToBeTraced, lastRayTrace, traceCount,
                       iteration, loops>>

\* The new elements the caller assigns: lists of the element constructed last
SpareChunks == UNION { [1..k -> {Len(heap)}] : k \in 0..MaxChunk }

\* group[start:stop:step] = value, with the slice (`key`) and the new
\* elements (`chunk`) the caller has prepared
DoSetSlice ==
    /\ last.op = "init"
    /\ LET r == setitemSlice(heap, group, last.key, last.chunk)
       IN  /\ Apply(r)
           /\ last' = [last EXCEPT !.op = "setitem[slice]", !.raised = r.raised,
                                   !.warned = r.warned]
    /\ UNCHANGED <<lastRayToBeTraced, lastRayTrace, traceCount,
                   sliceGroup, iteration, loops>>

\* A for-loop of the caller starts: iter(group) is MatrixGroup.__iter__,
\* which sets self.iteration to 0 and returns the group itself
DoIter ==
    \E k \in 1..MaxLoops :
        /\ loops[k].state = "idle"
        /\ iteration' = 0
        /\ loops' = [loops EXCEPT ![k].state = "running"]
        /\ last' = [NoCall EXCEPT !.op = "iter", !.start = k]
        /\ UNCHANGED <<heap, group, lastRayToBeTraced, lastRayTrace, traceCount, sliceGroup>>

\* A running for-loop asks for its next element: MatrixGroup.__next__ returns
\* self.elements[self.iteration] and adds 1 to self.iteration, or raises
\* StopIteration, which ends the loop
DoNext ==
    \E k \in 1..MaxLoops :
        /\ loops[k].state = "running"
        /\ IF iteration < Len(group.elements)
           THEN /\ loops' = [loops EXCEPT
                                ![k].yielded = Append(@, group.elements[iteration + 1])]
                /\ iteration' = iteration + 1
                /\ last' = [NoCall EXCEPT !.op = "next", !.start = k,
                                          !.matrix = group.elements[iteration + 1]]
           ELSE /\ loops' = [loops EXCEPT ![k].state = "done"]
                /\ iteration' = iteration
                /\ last' = [NoCall EXCEPT !.op = "next", !.start = k,
                                          !.raised = "StopIteration"]
        /\ UNCHANGED <<heap, group, lastRayToBeTraced, lastRayTrace, traceCount, sliceGroup>>

\* The number of objects, elements and groups, the caller holds besides the
\* group.
MaxHeap == 4

\* The caller builds MatrixGroup(elements) of elements it holds, groups among
\* them, and holds the new group as one more object
DoNest ==
    \E elements \in UNION { [1..k -> Ids] : k \in 0..MaxChunk } :
        /\ Len(heap) < MaxHeap
        /\ LET r == MatrixGroup(heap, elements)
           IN  /\ heap' = IF r.raised = "" THEN Append(r.heap, GroupObject(r.group))
                          ELSE r.heap
               /\ last' = [NoCall EXCEPT !.op = "MatrixGroup", !.raised = r.raised,
                                         !.warned = r.warned, !.chunk = elements,
                                         !.matrix = IF r.raised = ""
                                                    THEN Len(heap) + 1 ELSE 0]
        /\ UNCHANGED <<group, lastRayToBeTraced, lastRayTrace, traceCount,
                       sliceGroup, iteration, loops>>

DoTransferMatrices ==
    /\ last' = [NoCall EXCEPT !.op = "transferMatrices",
                              !.matrices = transferMatrices(heap, group.elements)]
    /\ UNCHANGED <<heap, group, lastRayToBeTraced, lastRayTrace, traceCount,
                   sliceGroup, iteration, loops>>

DoIntermediateConjugates ==
    /\ last' = [NoCall EXCEPT !.op = "intermediateConjugates",
                              !.planes = intermediateConjugates(heap, group.elements)]
    /\ UNCHANGED <<heap, group, lastRayToBeTraced, lastRayTrace, traceCount,
                   sliceGroup, iteration, loops>>

\* replaceSingle called with the index (`start`) and the new elements the
\* caller has prepared
DoReplaceSingleGiven ==
    /\ last.op = "init"
    /\ LET r == replaceSingle(heap, group, last.start, last.chunk)
       IN  /\ Apply(r)
           /\ last' = [last EXCEPT !.op = "replaceSingle", !.raised = r.raised,
                                   !.warned = r.warned, !.lengthWarned = r.lengthWarned]
    /\ UNCHANGED <<lastRayToBeTraced, lastRayTrace, traceCount, sliceGroup, iteration, loops>>

DoTrace ==
    \E inputRay \in RayIds \cup {0} :
        LET r == trace(heap, group, lastRayToBeTraced, lastRayTrace, traceCount, inputRay)
        IN  /\ r.count <= MaxTraces
            /\ lastRayToBeTraced' = r.lastRayToBeTraced
            /\ lastRayTrace' = r.lastRayTrace
            /\ traceCount' = r.count
            /\ last' = [NoCall EXCEPT !.op = "trace", !.raised = r.raised, !.ray = inputRay,
                                      !.prevRay = IF last.op = "trace" THEN last.ray ELSE 0,
                                      !.rayTrace = r.rayTrace]
            /\ UNCHANGED <<heap, group, sliceGroup, iteration, loops>>

\* transferMatrix(upTo) asked of the group, at a multiple of 1/2 or +Inf
UpTos == { Rat(k, 2) : k \in 0..(2 * transferMatrix(heap, group.elements, Inf).L.n + 1) } \cup {Inf}

DoTransferMatrix ==
    \E upTo \in UpTos :
        /\ last' = [NoCall EXCEPT !.op = "transferMatrix", !.upTo = upTo,
                                  !.result = transferMatrix(heap, group.elements, upTo)]
        /\ UNCHANGED <<heap, group, lastRayToBeTraced, lastRayTrace, traceCount, sliceGroup, iteration, loops>>

DoLargestDiameter ==
    /\ last' = [NoCall EXCEPT !.op = "largestDiameter",
                              !.diameter = largestDiameter(heap, group.elements)]
    /\ UNCHANGED <<heap, group, lastRayToBeTraced, lastRayTrace, traceCount, sliceGroup, iteration, loops>>

\* transferMatrix().forwardConjugate() asked of the group
DoForwardConjugate ==
    /\ last' = [NoCall EXCEPT !.op = "forwardConjugate",
                              !.result = transferMatrix(heap, group.elements, Inf),
                              !.conjugate = ElementForwardConjugate(
                                                transferMatrix(heap, group.elements, Inf))]
    /\ UNCHANGED <<heap, group, lastRayToBeTraced, lastRayTrace, traceCount, sliceGroup, iteration, loops>>

Next ==
    \/ Construct
    \/ DoAppend
    \/ DoRemoveElement
    \/ DoInsertElement
    \/ DoReplaceSingle
    \/ DoReplaceChunk
    \/ DoFlipOrientation
    \/ DoTrace
    \/ DoTransferMatrix
    \/ DoLargestDiameter
    \/ DoForwardConjugate

Spec == Init /\ [][Next]_vars

NextEdit ==
    \/ Construct
    \/ DoAppend
    \/ DoRemoveElement
    \/ DoInsertElement
    \/ DoFlipOrientation

SpecEdit == Init /\ [][NextEdit]_vars

\* The four structural edits on the groups the caller builds by append from a
\* Space and a DielectricInterface
InitReplace ==
    /\ heap = <<Space(Int2R(1), 1), DielectricInterface(1, 2)>>
    /\ group = NewGroup
    /\ lastRayToBeTraced = 0
    /\ lastRayTrace = NoTrace
    /\ traceCount = 0
    /\ NothingElse
    /\ last = NoCall

NextReplace ==
    \/ DoAppend
    \/ DoRemoveElement
    \/ DoInsertElement
    \/ DoReplaceSingle

SpecReplace == InitReplace /\ [][NextReplace]_vars

NextTrace ==
    \/ Construct
    \/ DoAppend
    \/ DoFlipOrientation
    \/ DoTrace

SpecTrace == Init /\ [][NextTrace]_vars

\* The groups Space(d1), Lens(f), Space(d2) and their transfer matrices
InitQuery ==
    /\ \E d1 \in 1..MaxD, f \in 1..MaxF, d2 \in 1..MaxD :
          LET built == MatrixGroup(<<Space(Int2R(d1), 1), Lens(Int2R(f), Inf), Space(Int2R(d2), 1)>>,
                                   <<1, 2, 3>>)
          IN  /\ heap = built.heap
              /\ group = built.group
    /\ lastRayToBeTraced = 0
    /\ lastRayTrace = NoTrace
    /\ traceCount = 0
    /\ NothingElse
    /\ last = NoCall

SpecQuery == InitQuery /\ [][DoTransferMatrix]_vars

\* The groups MatrixGroup([e1, .., en]) of at most MaxLen constructed elements
InitBuilt ==
    /\ \E n \in 1..MaxLen :
          \E constructed \in [1..n -> Templates] :
              LET built == MatrixGroup(constructed, [i \in 1..n |-> i])
              IN  /\ built.raised = ""
                  /\ heap = built.heap
                  /\ group = built.group
    /\ lastRayToBeTraced = 0
    /\ lastRayTrace = NoTrace
    /\ traceCount = 0
    /\ NothingElse
    /\ last = NoCall

DoRemoveElementBuilt == RemoveElementUnder(MaxLen + 2)

\* The groups Space(d), Lens(f): an object at distance d in front of a thin lens
InitConjugate ==
    /\ \E f \in 1..MaxFocal, d \in 1..(2 * MaxFocal) :
          LET built == MatrixGroup(<<Space(Int2R(d), 1), Lens(Int2R(f), Inf)>>, <<1, 2>>)
          IN  /\ heap = built.heap
              /\ group = built.group
    /\ lastRayToBeTraced = 0
    /\ lastRayTrace = NoTrace
    /\ traceCount = 0
    /\ NothingElse
    /\ last = NoCall

NextConjugate ==
    \/ DoTransferMatrix
    \/ DoForwardConjugate

SpecConjugate == InitConjugate /\ [][NextConjugate]_vars

\* Every structural edit and trace, on the groups the caller builds from one
\* Space
InitCache ==
    /\ heap = <<Space(Int2R(1), 1)>>
    /\ group = NewGroup
    /\ lastRayToBeTraced = 0
    /\ lastRayTrace = NoTrace
    /\ traceCount = 0
    /\ NothingElse
    /\ last = NoCall

NextCache ==
    \/ DoAppend
    \/ RemoveElementUnder(MaxObj)
    \/ DoInsertElement
    \/ DoReplaceSingle
    \/ DoReplaceChunk
    \/ DoFlipOrientation
    \/ DoTrace

SpecCache == InitCache /\ [][NextCache]_vars

\* replaceChunk(startIndex, stopIndex, newChunk) of a group MatrixGroup([e1,
\* .., en]) of n >= 2 constructed elements, the chunk taken from these and
\* one more constructed element
ChunkTemplates ==
    { Space(Int2R(1), 1), Lens(Int2R(2), Inf),
      DielectricInterface(1, 2), DielectricInterface(2, 1) }

InitChunk ==
    /\ \E n \in 2..MaxLen :
          \E constructed \in [1..(n + 1) -> ChunkTemplates] :
              LET built == MatrixGroup(constructed, [i \in 1..n |-> i])
              IN  /\ built.raised = ""
                  /\ heap = built.heap
                  /\ group = built.group
    /\ \E startIndex \in Indices, stopIndex \in Indices, newChunk \in Chunks :
          last = [NoCall EXCEPT !.start = startIndex, !.stop = stopIndex, !.chunk = newChunk]
    /\ lastRayToBeTraced = 0
    /\ lastRayTrace = NoTrace
    /\ traceCount = 0
    /\ NothingElse

NextSlice ==
    \/ DoGetSlice
    \/ DoGetItem
    \/ DoSliceAppend

SpecSlice == InitBuilt /\ [][NextSlice]_vars

\* The groups of at most MaxLen elements and one more element, constructed
\* and not in the group, with the slice and the new elements of an assignment
\* group[start:stop:step] = value
InitSpare ==
    /\ \E n \in 1..MaxLen :
          \E constructed \in [1..(n + 1) -> ChunkTemplates] :
              LET built == MatrixGroup(constructed, [i \in 1..n |-> i])
              IN  /\ built.raised = ""
                  /\ heap = built.heap
                  /\ group = built.group
    /\ \E start \in SliceParts, stop \in SliceParts, step \in {<<>>, <<2>>},
          value \in SpareChunks :
          last = [NoCall EXCEPT !.key = Slice(start, stop, step), !.chunk = value]
    /\ lastRayToBeTraced = 0
    /\ lastRayTrace = NoTrace
    /\ traceCount = 0
    /\ NothingElse

SpecSetSlice == InitSpare /\ [][DoSetSlice]_vars

NextIter ==
    \/ DoIter
    \/ DoNext

SpecIter == InitBuilt /\ [][NextIter]_vars

\* The elements the caller nests.
LeafTemplates == { Space(Int2R(1), 1), Lens(Int2R(2), Inf), DielectricInterface(1, 2) }

\* The caller holds two elements and no group yet
InitLeaves ==
    /\ \E constructed \in [1..2 -> LeafTemplates] : heap = constructed
    /\ group = NewGroup
    /\ lastRayToBeTraced = 0
    /\ lastRayTrace = NoTrace
    /\ traceCount = 0
    /\ NothingElse
    /\ last = NoCall

NextNested ==
    \/ DoNest
    \/ DoAppend
    \/ DoTransferMatrices
    \/ DoIntermediateConjugates

SpecNested == InitLeaves /\ [][NextNested]_vars

SpecChunk == InitChunk /\ [][DoReplaceChunkGiven]_vars

\* The elements of length 1 and 0 the caller replaces, with and without a
\* change of index.
LengthTemplates == { Space(Int2R(1), 1), DielectricInterface(1, 2) }

\* The groups of 2 to MaxLen elements and one more element, constructed and
\* not in the group, with the indices and new elements (lists of that one
\* element) of a replacement
InitLength ==
    /\ \E n \in 2..MaxLen :
          \E constructed \in [1..(n + 1) -> LengthTemplates] :
              LET built == MatrixGroup(constructed, [i \in 1..n |-> i])
              IN  /\ built.raised = ""
                  /\ heap = built.heap
                  /\ group = built.group
    /\ \E startIndex \in Indices, stopIndex \in Indices, newChunk \in SpareChunks :
          last = [NoCall EXCEPT !.start = startIndex, !.stop = stopIndex, !.chunk = newChunk]
    /\ lastRayToBeTraced = 0
    /\ lastRayTrace = NoTrace
    /\ traceCount = 0
    /\ NothingElse

NextLength ==
    \/ DoReplaceChunkGiven
    \/ DoReplaceSingleGiven

SpecLength == InitLength /\ [][NextLength]_vars

\* The groups the caller builds by append alone
NextAppend ==
    \/ Construct
    \/ DoAppend

SpecAppend == Init /\ [][NextAppend]_vars

\* The elements with and without a finite aperture diameter
ApertureTemplates ==
    { Space(Int2R(1), 1), Lens(Int2R(2), Inf), Lens(Int2R(2), Int2R(1)), Lens(Int2R(2), Int2R(3)) }

\* The groups MatrixGroup([e1, .., en]), the empty one included, of elements
\* with and without apertures; they are traced and asked their largestDiameter
InitAperture ==
    /\ \E n \in 0..MaxLen :
          \E constructed \in [1..n -> ApertureTemplates] :
              LET built == MatrixGroup(constructed, [i \in 1..n |-> i])
              IN  /\ built.raised = ""
                  /\ heap = built.heap
                  /\ group = built.group
    /\ lastRayToBeTraced = 0
    /\ lastRayTrace = NoTrace
    /\ traceCount = 0
    /\ NothingElse
    /\ last = NoCall

NextAperture ==
    \/ DoTrace
    \/ DoLargestDiameter

SpecAperture == InitAperture /\ [][NextAperture]_vars

SpecRemove == InitBuilt /\ [][DoRemoveElementBuilt]_vars

\* ----------------------------------------------------------------- claims
LastElement(h, g) == h[g.elements[Len(g.elements)]]

\* append(matrix) is called on a non-empty group whose last element's
\* backIndex differs from matrix.frontIndex
Mismatched(h, g, matrix) ==
    /\ IsMatrix(h, matrix)
    /\ Len(g.elements) # 0
    /\ LastElement(h, g).backIndex # h[matrix].frontIndex

IndexContinuity(h, els) ==
    \A i \in 1..(Len(els) - 1) : h[els[i]].backIndex = h[els[i + 1]].frontIndex

Mutations == {"append", "insertElement", "removeElement", "replaceSingle", "replaceChunk",
              "flipOrientation"}

ABCD(m) == <<m.A, m.B, m.C, m.D>>

\* C1: in every reachable state, empty element list or not, the aggregate
\* A, B, C, D, L, frontVertex, backVertex of the group is that of
\* transferMatrix() folded over the current element list.
C1_AggregateIsTransferMatrix ==
    group.agg = Aggregate(transferMatrix(heap, group.elements, Inf))

\* C2: after every mutation that did not raise, each element's backIndex is
\* the frontIndex of the element that follows it in the list.
C2_IndexContinuityAfterMutation ==
    (last.op \in Mutations /\ last.raised = "") => IndexContinuity(heap, group.elements)

\* C3: an append of a non-Space element whose frontIndex differs from the last
\* element's backIndex raises ValueError and leaves the elements (list and
\* objects) and the aggregate as they were.
C3_MismatchedAppendRaises ==
    [][ ( /\ last'.op = "append"
          /\ Mismatched(heap, group, last'.matrix)
          /\ heap[last'.matrix].kind # "Space" )
        => ( /\ last'.raised = "ValueError"
             /\ group' = group
             /\ heap' = heap ) ]_vars

C3_Witness == last.op = "append" /\ last.raised = "ValueError"

\* C4: an append of a Space whose frontIndex differs from the backIndex n of
\* the last element does not raise, warns once, sets both indices of the Space
\* to n and makes the Space the last element.
C4_MismatchedSpaceIsFixed ==
    [][ ( /\ last'.op = "append"
          /\ Mismatched(heap, group, last'.matrix)
          /\ heap[last'.matrix].kind = "Space" )
        => ( /\ last'.raised = ""
             /\ last'.warned = 1
             /\ heap'[last'.matrix].frontIndex = LastElement(heap, group).backIndex
             /\ heap'[last'.matrix].backIndex = LastElement(heap, group).backIndex
             /\ group'.elements = Append(group.elements, last'.matrix) ) ]_vars

C4_Witness ==
    /\ last.op = "append" /\ last.warned = 1
    /\ LastElement(heap, group).kind = "Space"
    /\ Len(group.elements) > 1

\* The trace a group without cache computes for the ray.
Uncached(h, g, ray) == traceLoop(h, g.elements, 1, RayObject(ray), <<RayObject(ray)>>)

C6_CacheIsOnlyAnOptimization ==
    (last.op = "trace" /\ last.raised = "") => last.rayTrace.rays = Uncached(heap, group, last.ray)

\* C7: the list trace returns has 1 + (number of elements) entries.
C7_TraceLength ==
    (last.op = "trace" /\ last.raised = "") => Len(last.rayTrace.rays) = 1 + Len(group.elements)

\* The group is Space(d1), Lens(f), Space(d2) and transferMatrix(upTo) was
\* asked of it.
AskedOfSpaceLensSpace ==
    /\ last.op = "transferMatrix"
    /\ Len(group.elements) = 3
    /\ heap[group.elements[1]].kind = "Space"
    /\ heap[group.elements[2]].kind = "Lens"
    /\ heap[group.elements[3]].kind = "Space"

\* C8 as claimed: transferMatrix(upTo=d1) of Space(d1), Lens(f), Space(d2) is
\* the translation [[1, d1], [0, 1]].
C8_UpToLensIsTranslation ==
    (AskedOfSpaceLensSpace /\ last.upTo = heap[group.elements[1]].L)
        => ABCD(last.result) = <<One, heap[group.elements[1]].L, Zero, One>>

\* C8 amended: transferMatrix(upTo=d1) of Space(d1), Lens(f), Space(d2) holds
\* the lens, [[1, d1], [-1/f, 1 - d1/f]]; for upTo < d1 it is the translation
\* [[1, upTo], [0, 1]].
C8_UpToLensIncludesLens ==
    LET d1 == heap[group.elements[1]].L
        c == heap[group.elements[2]].C
    IN  AskedOfSpaceLensSpace =>
            /\ last.upTo = d1 => ABCD(last.result) = <<One, d1, c, RAdd(One, RMul(c, d1))>>
            /\ RLt(last.upTo, d1) => ABCD(last.result) = <<One, last.upTo, Zero, One>>

C8_Witness == AskedOfSpaceLensSpace /\ last.upTo = heap[group.elements[1]].L

\* C9: insertElement(i, e) of a single element followed by removeElement(i),
\* neither raising, leaves the element list and the aggregate as they were;
\* i is any index from 0 to the length of the list, the empty list included.
C9_InsertRemoveRoundTrip ==
    \A i \in 0..Len(group.elements), e \in Ids :
        LET inserted == insertElement(heap, group, i, <<e>>)
            removed == removeElement(inserted.heap, inserted.group, i, FALSE)
        IN  (inserted.raised = "" /\ removed.raised = "") => removed.group = group

\* C10: removeElement(i, pad) of an element of length d > 0 leaves the length
\* of transferMatrix() the same when pad is true and smaller by d when not.
C10_RemovePadKeepsLength ==
    \A i \in 0..(Len(group.elements) - 1), pad \in BOOLEAN :
        LET d == heap[group.elements[i + 1]].L
            before == transferMatrix(heap, group.elements, Inf).L
            removed == removeElement(heap, group, i, pad)
            after == transferMatrix(removed.heap, removed.group.elements, Inf).L
        IN  RLt(Zero, d) => after = IF pad THEN before ELSE RSub(before, d)

\* index, counted from the end when negative, is no position of a list of
\* maxIndex elements
OutOfRange(index, maxIndex) ==
    FromEnd(index, maxIndex) < 0 \/ FromEnd(index, maxIndex) >= maxIndex

\* r is the outcome of a call that raised IndexError and left the element
\* list, the element objects and the aggregate as they are
RefusedWithIndexError(r) ==
    r.raised = "IndexError" /\ r.group = group /\ r.heap = heap

\* r is the outcome of an edit that was given the new elements `chunk` and
\* refused: the element list and the aggregate are as they are, the exception
\* is IndexError when the new elements build a group and the exception of
\* building them when they do not, and the element objects are as building
\* that group leaves them.
RefusedAfterBuilding(r, chunk) ==
    LET new == MatrixGroup(heap, chunk)
    IN  /\ r.raised = IF new.raised = "" THEN "IndexError" ELSE new.raised
        /\ r.group = group
        /\ r.heap = new.heap

\* C11 as claimed: an index out of range given to removeElement,
\* insertElement, replaceSingle or replaceChunk raises IndexError and leaves
\* the element list and the aggregate as they were.
C11_OutOfRangeRaisesIndexError ==
    LET n == Len(group.elements)
    IN  \A index \in Indices, chunk \in Chunks :
            /\ OutOfRange(index, n) =>
                  /\ \A pad \in BOOLEAN :
                        RefusedWithIndexError(removeElement(heap, group, index, pad))
                  /\ RefusedWithIndexError(replaceSingle(heap, group, index, chunk))
                  /\ \A other \in Indices :
                        /\ RefusedWithIndexError(replaceChunk(heap, group, index, other, chunk))
                        /\ RefusedWithIndexError(replaceChunk(heap, group, other, index, chunk))
            /\ (FromEnd(index, n) < 0 \/ FromEnd(index, n) > n) =>
                  RefusedWithIndexError(insertElement(heap, group, index, chunk))

\* C11 amended: an index out of range given to one of the four edits leaves
\* the element list and the aggregate as they were; removeElement raises
\* IndexError, and so do insertElement, replaceSingle and replaceChunk when
\* the new elements build a group: the group of the new elements is built
\* before the index is looked at, and when that raises ValueError it is the
\* exception of the call.
C11_OutOfRangeAppliesNoEdit ==
    LET n == Len(group.elements)
    IN  \A index \in Indices, chunk \in Chunks :
            /\ OutOfRange(index, n) =>
                  /\ \A pad \in BOOLEAN :
                        RefusedWithIndexError(removeElement(heap, group, index, pad))
                  /\ RefusedAfterBuilding(replaceSingle(heap, group, index, chunk), chunk)
                  /\ \A other \in Indices :
                        /\ RefusedAfterBuilding(replaceChunk(heap, group, index, other, chunk), chunk)
                        /\ RefusedAfterBuilding(replaceChunk(heap, group, other, index, chunk), chunk)
            /\ (FromEnd(index, n) < 0 \/ FromEnd(index, n) > n) =>
                  RefusedAfterBuilding(insertElement(heap, group, index, chunk), chunk)

C11_Witness ==
    /\ last.op = "insertElement" /\ last.raised = "IndexError"
    /\ Len(group.elements) >= 2

\* C12: append of an argument that is no Matrix raises TypeError and leaves
\* the element list, the element objects, the aggregate and the trace cache as
\* they were; trace of an input that is neither Ray nor GaussianBeam raises
\* TypeError and leaves the cached ray and trace (and the group) as they were.
C12_TypeErrorsLeaveStateAlone ==
    [][ /\ (last'.op = "append" /\ ~IsMatrix(heap, last'.matrix))
            => (last'.raised = "TypeError" /\ UNCHANGED <<heap, group, lastRayToBeTraced, lastRayTrace>>)
        /\ (last'.op = "trace" /\ ~IsRay(last'.ray))
            => (last'.raised = "TypeError" /\ UNCHANGED <<heap, group, lastRayToBeTraced, lastRayTrace>>)
        /\ (last'.op \in {"append", "trace"} /\ last'.raised = "TypeError")
            => UNCHANGED <<heap, group, lastRayToBeTraced, lastRayTrace>> ]_vars

C12_Witness ==
    /\ last.op = "trace" /\ last.raised = "TypeError"
    /\ lastRayToBeTraced # 0 /\ Len(lastRayTrace.rays) > 1

\* The ray after element k, entry k + 1 of the list, is higher than the
\* aperture radius of element k.
ExceedsAperture(h, els, rays, k) ==
    RLt(Half(h[els[k]].apertureDiameter), RAbs(rays[k + 1].y))

\* C13: in the list a trace builds, [inputRay, afterElement1, ...], a ray that
\* is higher than the aperture radius of element k is blocked in entry k + 1
\* and in every later entry; when k is the first such element, the entries
\* before entry k + 1 are not blocked; no entry after a blocked one is
\* unblocked.
C13_BlockedFromThatElementOn ==
    (last.op = "trace" /\ last.raised = "") =>
        LET rays == last.rayTrace.rays
            els == group.elements
        IN  /\ Len(rays) = Len(els) + 1
            /\ \A i \in 1..Len(rays), j \in 1..Len(rays) :
                  (i < j /\ rays[i].isBlocked) => rays[j].isBlocked
            /\ \A k \in 1..Len(els) :
                  ExceedsAperture(heap, els, rays, k) =>
                      /\ \A j \in (k + 1)..Len(rays) : rays[j].isBlocked
                      /\ (\A m \in 1..(k - 1) : ~ExceedsAperture(heap, els, rays, m))
                            => \A j \in 1..k : ~rays[j].isBlocked

C13_Witness ==
    /\ last.op = "trace" /\ last.raised = ""
    /\ Len(last.rayTrace.rays) = 4
    /\ ~last.rayTrace.rays[2].isBlocked
    /\ last.rayTrace.rays[3].isBlocked
    /\ ~ExceedsAperture(heap, group.elements, last.rayTrace.rays, 3)

\* C14: largestDiameter of a group with an element and no finite aperture is
\* twice displayHalfHeight() of the first element; of the empty group it is
\* +Inf.
C14_LargestDiameterWithoutAperture ==
    last.op = "largestDiameter" =>
        /\ (Len(group.elements) # 0 /\ ~hasFiniteApertureDiameter(heap, group.elements))
              => last.diameter = RMul(Int2R(2), ElementDisplayHalfHeight(heap[group.elements[1]]))
        /\ Len(group.elements) = 0 => last.diameter = Inf

C14_Witness ==
    /\ last.op = "largestDiameter"
    /\ Len(group.elements) = 0
    /\ last.diameter = Inf

\* The forward conjugate was asked of a group Space(d), Lens(f).
AskedConjugateOfSpaceLens ==
    /\ last.op = "forwardConjugate"
    /\ Len(group.elements) = 2
    /\ heap[group.elements[1]].kind = "Space"
    /\ heap[group.elements[2]].kind = "Lens"

\* C15: for the group Space(d), Lens(f) with the object at d = 2f, f = 5 and
\* d = 10 among them, the forward conjugate of transferMatrix() is at distance
\* 2f behind the lens, with magnification -1.
C15_ImageOfObjectAtTwoF ==
    LET d == heap[group.elements[1]].L
        c == heap[group.elements[2]].C
    IN  (AskedConjugateOfSpaceLens /\ RMul(c, d) = Int2R(-2)) =>
            /\ last.conjugate.distance = d
            /\ last.conjugate.magnification = Int2R(-1)

C15_Witness ==
    /\ AskedConjugateOfSpaceLens
    /\ heap[group.elements[1]].L = Int2R(10)
    /\ heap[group.elements[2]].C = Rat(-1, 5)
    /\ last.conjugate = [distance |-> Int2R(10), magnification |-> Int2R(-1)]

\* A * D - B * C
Determinant(m) == RSub(RMul(m.A, m.D), RMul(m.B, m.C))

\* C16: the product of two matrices of determinant 1, either way round, has
\* determinant 1, for the elements and the transfer matrix of the group; and
\* the aggregate of a group built by appends of elements of determinant 1 has
\* determinant 1.
C16_UnitDeterminant ==
    LET tm == transferMatrix(heap, group.elements, Inf)
        Units == {heap[i] : i \in Ids} \cup {tm}
    IN  /\ \A left \in Units, right \in Units :
              (Determinant(left) = One /\ Determinant(right) = One)
                  => Determinant(MatMul(left, right)) = One
        /\ (\A i \in 1..Len(group.elements) : Determinant(heap[group.elements[i]]) = One)
              => Determinant(group.agg) = One

C16_Witness ==
    /\ Len(group.elements) = MaxLen
    /\ \A i \in 1..Len(group.elements) : Determinant(heap[group.elements[i]]) = One
    /\ group.agg.C # Zero /\ group.agg.B # Zero /\ group.agg.A # One

RECURSIVE LengthOfPrefix(_, _, _)
LengthOfPrefix(h, els, k) ==
    IF k = 0 THEN Zero ELSE RAdd(LengthOfPrefix(h, els, k - 1), h[els[k]].L)

RECURSIVE ProductOfPrefix(_, _, _)
ProductOfPrefix(h, els, k) ==
    IF k = 0 THEN Identity ELSE MatMul(h[els[k]], ProductOfPrefix(h, els, k - 1))

\* Each of the first k elements fits in what is left of upTo after the
\* elements before it.
PrefixFits(h, els, upTo, k) ==
    \A j \in 1..k : RLe(h[els[j]].L, RSub(upTo, LengthOfPrefix(h, els, j - 1)))

\* C18: transferMatrix(upTo), upTo >= 0, is the product in list order of the
\* longest prefix of elements that each fit in the distance left, times, when
\* an element is left over, that next element's own
\* transferMatrix(upTo = distance left); no later element enters.
C18_PrefixThenOnePartialElement ==
    last.op = "transferMatrix" =>
        LET els == group.elements
            upTo == last.upTo
            p == CHOOSE k \in 0..Len(els) :
                     /\ PrefixFits(heap, els, upTo, k)
                     /\ (k < Len(els) => ~PrefixFits(heap, els, upTo, k + 1))
            remaining == RSub(upTo, LengthOfPrefix(heap, els, p))
        IN  last.result =
                IF p = Len(els) THEN ProductOfPrefix(heap, els, p)
                ELSE MatMul(ElementTransferMatrix(heap[els[p + 1]], remaining),
                            ProductOfPrefix(heap, els, p))

C18_Witness ==
    /\ last.op = "transferMatrix"
    /\ Len(group.elements) = 3
    /\ PrefixFits(heap, group.elements, last.upTo, 2)
    /\ ~PrefixFits(heap, group.elements, last.upTo, 3)
    /\ RLt(LengthOfPrefix(heap, group.elements, 2), last.upTo)
    /\ last.result.L = last.upTo

Edits == {"removeElement", "insertElement", "replaceSingle", "replaceChunk"}

\* C19: a structural edit that raises ValueError leaves the element list and
\* the aggregate as they were before the call.
C19_EditIsAllOrNothing ==
    [][ (last'.op \in Edits /\ last'.raised = "ValueError") => group' = group ]_vars

\* The list replaceChunk is to leave: the chunk in place of the positions
\* lo..hi (counted from 0), the other elements in their order.
ChunkInPlace(els, lo, hi, chunk) ==
    SubSeq(els, 1, lo) \o chunk \o SubSeq(els, hi + 2, Len(els))

C22_FlipReversesAndFlipsOnce ==
    [][ (last'.op = "flipOrientation" /\ IndexContinuity(heap, group.elements)) =>
          /\ last'.raised = ""
          /\ group'.elements = Reverse(group.elements)
          /\ \A i \in 1..Len(group.elements) :
                heap'[group.elements[i]] = ElementFlipOrientation(heap[group.elements[i]])
          /\ IndexContinuity(heap', group'.elements) ]_vars

\* The sum of the lengths of the elements ids.
RECURSIVE TotalLength(_, _)
TotalLength(h, ids) ==
    IF ids = <<>> THEN Zero ELSE RAdd(h[Head(ids)].L, TotalLength(h, Tail(ids)))

C23_SliceLeavesOriginalAlone ==
    [][ /\ last'.op \in {"getitem[slice]", "slice.append"} =>
              /\ group' = group
              /\ \A i \in 1..Len(group.elements) :
                    /\ heap'[group.elements[i]].frontIndex = heap[group.elements[i]].frontIndex
                    /\ heap'[group.elements[i]].backIndex = heap[group.elements[i]].backIndex
        /\ (last'.op = "getitem" /\ last'.raised = "") =>
              /\ UNCHANGED <<heap, group>>
              /\ last'.matrix
                    = group.elements[FromEnd(last'.start, Len(group.elements)) + 1] ]_vars

\* C28: group[a:b] = chunk, when it returns, has replaced the elements that
\* group[a:b] returns, those at a .. b - 1 (none when the slice is empty), by
\* the elements of the chunk, and left the others in place.
C28_SetSliceReplacesTheSlice ==
    [][ (last'.op = "setitem[slice]" /\ last'.raised = "") =>
          LET els == group.elements
              n == Len(els)
              key == Slice(last'.key.start, last'.key.stop, <<>>)
              a == SliceStart(key, n)
              b == IF SliceStop(key, n) < a THEN a ELSE SliceStop(key, n)
          IN  /\ ListSlice(els, key) = SubSeq(els, a + 1, b)
              /\ group'.elements = SubSeq(els, 1, a) \o last'.chunk \o SubSeq(els, b + 1, n) ]_vars

\* C26: a for-loop over the group that has ended was given every element of
\* the group once and in order, whatever other loop over the same group ran
\* in between.
C26_EveryLoopSeesEveryElement ==
    \A k \in 1..MaxLoops :
        loops[k].state = "done" => loops[k].yielded = group.elements

\* The number of leaf matrices under the elements els, nested groups opened.
RECURSIVE LeafCount(_, _)
LeafCount(h, els) ==
    IF els = <<>> THEN 0
    ELSE (IF h[Head(els)].kind = "MatrixGroup" THEN LeafCount(h, h[Head(els)].elements)
          ELSE 1)
         + LeafCount(h, Tail(els))

\* The depth of nesting under the elements els: 0 without a nested group.
RECURSIVE Depth(_, _)
Depth(h, els) ==
    IF els = <<>> THEN 0
    ELSE LET first == IF h[Head(els)].kind = "MatrixGroup"
                      THEN 1 + Depth(h, h[Head(els)].elements) ELSE 0
             rest == Depth(h, Tail(els))
         IN  IF first > rest THEN first ELSE rest

\* C25: transferMatrices() holds no group; it has one entry per leaf matrix of
\* the group, nested groups opened at any depth, and the entries are in the
\* order light meets them: their product in list order, and the sum of their
\* lengths, are those of the whole group.
C25_TransferMatricesAreTheLeaves ==
    last.op = "transferMatrices" =>
        LET matrices == last.matrices
        IN  /\ \A i \in 1..Len(matrices) : heap[matrices[i]].kind # "MatrixGroup"
            /\ Len(matrices) = LeafCount(heap, group.elements)
            /\ ABCD(ProductOfPrefix(heap, matrices, Len(matrices)))
                  = ABCD(transferMatrix(heap, group.elements, Inf))
            /\ LengthOfPrefix(heap, matrices, Len(matrices))
                  = transferMatrix(heap, group.elements, Inf).L

C25_Witness ==
    /\ last.op = "transferMatrices"
    /\ Depth(heap, group.elements) = 2
    /\ Len(last.matrices) >= 3
    /\ Len(group.elements) = 2

\* The leaf matrices of the group in order, nested groups opened, by what
\* they are and not by their identity.
RECURSIVE LeafMatrices(_, _)
LeafMatrices(h, els) ==
    IF els = <<>> THEN <<>>
    ELSE (IF h[Head(els)].kind = "MatrixGroup" THEN LeafMatrices(h, h[Head(els)].elements)
          ELSE <<h[Head(els)]>>)
         \o LeafMatrices(h, Tail(els))

\* The product of the first k of the matrices ms, the first met first.
RECURSIVE RunningAggregate(_, _)
RunningAggregate(ms, k) ==
    IF k = 0 THEN Identity ELSE MatMul(ms[k], RunningAggregate(ms, k - 1))

\* The image of the input plane by the matrix m: whether it is at a finite
\* distance (D # 0), its position from the input plane, L - B/D, and the
\* magnification there, A - (B/D) C.
ImageBy(m) ==
    IF m.D = Zero THEN [finite |-> FALSE, position |-> Zero, magnification |-> Zero]
    ELSE [finite |-> TRUE,
          position |-> RSub(m.L, RDiv(m.B, m.D)),
          magnification |-> RSub(m.A, RMul(RDiv(m.B, m.D), m.C))]

\* Whether intermediateConjugates is to record the image formed after the
\* first k leaves.
Recorded(ms, k) ==
    ImageBy(RunningAggregate(ms, k)).finite /\ ImageBy(RunningAggregate(ms, k)).position # Zero

\* The number of images to record among those after the first k leaves.
RECURSIVE RecordedUpTo(_, _)
RecordedUpTo(ms, k) ==
    IF k = 0 THEN 0 ELSE RecordedUpTo(ms, k - 1) + (IF Recorded(ms, k) THEN 1 ELSE 0)

\* C24: intermediateConjugates() goes through the leaf matrices in order,
\* nested groups opened, and holds at most one entry per leaf: the entries
\* are, in order, those of the leaves after which the running product has a
\* forward conjugate at a finite distance and at a position, the product's L
\* plus that distance, other than 0; each entry is that position with the
\* magnification there. A leaf after which there is no finite conjugate, or
\* one at position 0, has no entry.
C24_OneConjugatePerLeafAtMost ==
    last.op = "intermediateConjugates" =>
        LET ms == LeafMatrices(heap, group.elements)
            planes == last.planes
        IN  /\ Len(planes) <= Len(ms)
            /\ Len(planes) = RecordedUpTo(ms, Len(ms))
            /\ \A k \in 1..Len(ms) :
                  Recorded(ms, k) =>
                      /\ planes[RecordedUpTo(ms, k)][1] = ImageBy(RunningAggregate(ms, k)).position
                      /\ planes[RecordedUpTo(ms, k)][2]
                            = ImageBy(RunningAggregate(ms, k)).magnification
            /\ \A i \in 1..Len(planes) : planes[i][1] # Zero /\ ~IsInf(planes[i][1])

\* A group with a nested group, after whose leaves the conjugate is in turn
\* at the origin, recorded, and at no finite distance.
C24_Witness ==
    /\ last.op = "intermediateConjugates"
    /\ Depth(heap, group.elements) >= 1
    /\ Len(last.planes) = 1
    /\ LET ms == LeafMatrices(heap, group.elements)
       IN  /\ Len(ms) = 3
           /\ Recorded(ms, 2)
           /\ RunningAggregate(ms, 3).D = Zero
           /\ ImageBy(RunningAggregate(ms, 1)).finite

\* C27: the group that MatrixGroup(elements) has built by append has for its
\* own frontIndex the frontIndex of its first element and for its own
\* backIndex the backIndex of its last element.
C27_GroupHasItsOuterIndices ==
    [][ (last'.op = "MatrixGroup" /\ last'.raised = "" /\ last'.chunk # <<>>) =>
          LET built == heap'[last'.matrix]
          IN  /\ built.frontIndex = heap'[built.elements[1]].frontIndex
              /\ built.backIndex = heap'[built.elements[Len(built.elements)]].backIndex ]_vars

====
